---- MODULE Spec2Model ----
(***************************************************************************)
(* Model of the single-scheme Data Matrix encoder of dmtxencodescheme.c.   *)
(*                                                                         *)
(* The encode stream (DmtxEncodeStream) is the state; every C function of  *)
(* the file is an operator from a stream record to a stream record, with   *)
(* the CHKERR / CHKSCHEME / CHKSIZE early returns written out.  The actions *)
(* are the steps of the dispatcher loop of EncodeSingleScheme2: the scheme *)
(* change, EncodeNextChunk[Scheme] and CompleteIfDone[Scheme].  The two    *)
(* loops of EncodeNextChunkCTX are taken one iteration per step.           *)
(***************************************************************************)
EXTENDS Integers, Sequences, FiniteSets, TLC

VARIABLES
    input,                  \* stream->input (immutable byte list)
    targetScheme,           \* argument of EncodeSingleScheme2
    requestedSizeIdx,       \* argument of EncodeSingleScheme2
    output,                 \* stream->output
    inputNext,              \* stream->inputNext (0-based cursor)
    currentScheme,          \* stream->currentScheme
    outputChainValueCount,  \* stream->outputChainValueCount
    outputChainWordCount,   \* stream->outputChainWordCount
    status,                 \* stream->status
    reason,                 \* stream->reason
    sizeIdx,                \* stream->sizeIdx
    late,                   \* history: a stream field was written while status # Encoding
    outScheme,              \* history: currentScheme at the time output[i] was appended
    latchAt,                \* history: output positions of the latch codewords
    schemeTrail,            \* history: the values currentScheme has taken, in order
    valueList,              \* local valueList of EncodeNextChunkCTX
    pc,                     \* position in EncodeSingleScheme2 / EncodeNextChunk
    passFail                \* return value of EncodeSingleScheme2

vars == <<input, targetScheme, requestedSizeIdx, output, inputNext, currentScheme,
          outputChainValueCount, outputChainWordCount, status, reason, sizeIdx,
          late, outScheme, latchAt, schemeTrail, valueList, pc, passFail>>

(***************************************************************************)
(* Bounds of the model.                                                    *)
(***************************************************************************)
\* longest input over the full byte alphabet
MaxLen == 3
\* longest input over the reduced alphabet LongBytes
MaxLongLen == 5
\* capacity of the caller's output buffer (stream->output.capacity)
OutputCapacity == 16
\* capacity of the output buffer handed over with a long input
LongOutputCapacity == 282

\* representative input bytes: CR, digit '1', 'A', 'a', extended 0xC8
Bytes == {13, 49, 65, 97, 200}
\* reduced alphabet of the longer inputs: '1', 'A', 'a'
LongBytes == {49, 65, 97}

SeqUpTo(S, n) ==
    UNION {[1..k -> S] : k \in 0..n}

\* the inputs of the worked examples: "AIM" and "123456"
ScenarioInputs ==
    {<<65, 73, 77>>, <<49, 50, 51, 52, 53, 54>>}

\* long inputs: the byte 'A' repeated, past the two-byte Base 256 header
\* (251 bytes) and filling the 280-word symbol exactly (278 bytes)
LongInputs ==
    {[i \in 1..n |-> 65] : n \in {251, 278}}

\* the Base 256 inputs: the long ones, and one and three bytes, which fill
\* the 3-word and the 5-word symbol exactly with latch and header
Base256Inputs ==
    LongInputs \cup {<<65>>, <<65, 65, 65>>}

Inputs ==
    SeqUpTo(Bytes, MaxLen) \cup SeqUpTo(LongBytes, MaxLongLen)
    \cup ScenarioInputs

(***************************************************************************)
(* Schemes, statuses and codeword constants.                               *)
(***************************************************************************)
DmtxSchemeAscii == "Ascii"
DmtxSchemeC40 == "C40"
DmtxSchemeText == "Text"
DmtxSchemeX12 == "X12"
DmtxSchemeEdifact == "Edifact"
DmtxSchemeBase256 == "Base256"

Schemes ==
    {DmtxSchemeAscii, DmtxSchemeC40, DmtxSchemeText, DmtxSchemeX12,
     DmtxSchemeEdifact, DmtxSchemeBase256}

CTXSchemes ==
    {DmtxSchemeC40, DmtxSchemeText, DmtxSchemeX12}

DmtxStatusEncoding == "Encoding"
DmtxStatusComplete == "Complete"
DmtxStatusInvalid == "Invalid"
DmtxStatusFatal == "Fatal"

DmtxUnlatchExplicit == "Explicit"
DmtxUnlatchImplicit == "Implicit"

DmtxUndefined == -1
DmtxSymbolSquareAuto == -2

DmtxValueAsciiPad == 129
DmtxValueAsciiUpperShift == 235
DmtxValueC40Latch == 230
DmtxValueTextLatch == 239
DmtxValueX12Latch == 238
DmtxValueEdifactLatch == 240
DmtxValueBase256Latch == 231
DmtxValueCTXUnlatch == 254
DmtxValueEdifactUnlatch == 31
DmtxValueCTXShift1 == 0
DmtxValueCTXShift2 == 1
DmtxValueCTXShift3 == 2
DmtxChannelUnsupportedChar == 2

Latches ==
    {DmtxValueC40Latch, DmtxValueTextLatch, DmtxValueX12Latch,
     DmtxValueEdifactLatch, DmtxValueBase256Latch}

(***************************************************************************)
(* Symbol-size collaborator: data words per symbol size index (squares     *)
(* 0..23, rectangles 24..29) and the size lookup.                          *)
(***************************************************************************)
SymbolDataWords ==
    <<3, 5, 8, 12, 18, 22, 30, 36, 44, 62, 86, 114, 144, 174, 204, 280, 368,
      456, 576, 696, 816, 1050, 1304, 1558, 5, 10, 16, 22, 32, 49>>

DmtxSymbolSquareCount == 24

dmtxGetSymbolAttribute(idx) ==
    SymbolDataWords[idx + 1]

\* smallest square symbol holding dataWords under Auto, else the requested one
FindSymbolSize(dataWords, sizeIdxRequest) ==
    IF sizeIdxRequest = DmtxSymbolSquareAuto
    THEN LET fit == {i \in 0..(DmtxSymbolSquareCount - 1) :
                        dmtxGetSymbolAttribute(i) >= dataWords}
         IN  IF fit = {} THEN DmtxUndefined
             ELSE CHOOSE i \in fit : \A j \in fit : i <= j
    ELSE IF dataWords > dmtxGetSymbolAttribute(sizeIdxRequest)
         THEN DmtxUndefined
         ELSE sizeIdxRequest

GetRemainingSymbolCapacity(outputLength, idx) ==
    IF idx = DmtxUndefined
    THEN DmtxUndefined
    ELSE dmtxGetSymbolAttribute(idx) - outputLength

\* size hints tried: Auto and the three smallest squares
SizeHints == {DmtxSymbolSquareAuto, 0, 1, 2}

(***************************************************************************)
(* Stream primitives.  A stream record s carries the fields of             *)
(* DmtxEncodeStream; "late" records a write made after status left         *)
(* Encoding.                                                               *)
(***************************************************************************)
Wrote(s) ==
    [s EXCEPT !.late = @ \/ (s.status # DmtxStatusEncoding)]

StreamMarkComplete(s, idx) ==
    [Wrote(s) EXCEPT !.status = DmtxStatusComplete, !.sizeIdx = idx]

StreamMarkInvalid(s, why) ==
    [Wrote(s) EXCEPT !.status = DmtxStatusInvalid, !.reason = why]

StreamMarkFatal(s, why) ==
    [Wrote(s) EXCEPT !.status = DmtxStatusFatal, !.reason = why]

StreamInputHasNext(s) ==
    s.inputNext < Len(input)

\* the next input byte (0 when there is none)
StreamInputPeekValue(s) ==
    IF StreamInputHasNext(s) THEN input[s.inputNext + 1] ELSE 0

\* sequencing: the stream s is computed once, then F works on it
Then(s, F(_)) ==
    CHOOSE r \in {F(x) : x \in {s}} : TRUE

\* CHKERR: continue with F only while the stream is still encoding
Chk(s, F(_)) ==
    Then(s, LAMBDA x : IF x.status = DmtxStatusEncoding THEN F(x) ELSE x)

StreamInputPeekNext(s) ==
    IF StreamInputHasNext(s) THEN s ELSE StreamMarkFatal(s, 1)

StreamInputAdvanceNext(s) ==
    IF StreamInputHasNext(s)
    THEN [Wrote(s) EXCEPT !.inputNext = @ + 1]
    ELSE StreamMarkFatal(s, 1)

StreamOutputChainAppend(s, value) ==
    IF Len(s.output) < s.capacity
    THEN [Wrote(s) EXCEPT !.output = Append(@, value),
                          !.outScheme = Append(@, s.currentScheme),
                          !.outputChainWordCount = @ + 1]
    ELSE StreamMarkFatal(s, 1)

\* the byte StreamOutputChainRemoveLast returns
StreamOutputLastValue(s) ==
    IF s.outputChainWordCount > 0 /\ Len(s.output) > 0
    THEN s.output[Len(s.output)] ELSE 0

StreamOutputChainRemoveLast(s) ==
    IF s.outputChainWordCount > 0 /\ Len(s.output) > 0
    THEN [Wrote(s) EXCEPT !.output = SubSeq(@, 1, Len(@) - 1),
                          !.outScheme = SubSeq(@, 1, Len(@) - 1),
                          !.outputChainWordCount = @ - 1]
    ELSE StreamMarkFatal(s, 1)

\* index is 0-based, as in the C code
StreamOutputSet(s, index, value) ==
    IF index < 0 \/ index >= Len(s.output)
    THEN StreamMarkFatal(s, 1)
    ELSE [Wrote(s) EXCEPT !.output[index + 1] = value]

\* stream->currentScheme = scheme
SetScheme(s, scheme) ==
    [Wrote(s) EXCEPT !.currentScheme = scheme,
                     !.schemeTrail = IF scheme = s.currentScheme THEN @
                                     ELSE Append(@, scheme)]

\* insert a zero byte at the head of the current chain, shifting the chain
StreamOutputChainInsertFirst(s) ==
    LET chainStart == Len(s.output) - s.outputChainWordCount
    IN  IF Len(s.output) < s.capacity
        THEN [Wrote(s) EXCEPT
                 !.output = SubSeq(@, 1, chainStart) \o <<0>>
                            \o SubSeq(@, chainStart + 1, Len(@)),
                 !.outScheme = SubSeq(@, 1, chainStart) \o <<s.currentScheme>>
                               \o SubSeq(@, chainStart + 1, Len(@)),
                 !.outputChainWordCount = @ + 1]
        ELSE StreamMarkFatal(s, 1)

\* remove the first byte of the current chain, shifting the chain back
StreamOutputChainRemoveFirst(s) ==
    LET chainStart == Len(s.output) - s.outputChainWordCount
    IN  IF s.outputChainWordCount > 0
        THEN [Wrote(s) EXCEPT
                 !.output = SubSeq(@, 1, chainStart)
                            \o SubSeq(@, chainStart + 2, Len(@)),
                 !.outScheme = SubSeq(@, 1, chainStart)
                               \o SubSeq(@, chainStart + 2, Len(@)),
                 !.outputChainWordCount = @ - 1]
        ELSE StreamMarkFatal(s, 1)

(***************************************************************************)
(* Randomization.                                                          *)
(***************************************************************************)
\* variant: the wrap-around taken one value early
Randomize253State2EarlyWrap(cwValue, cwPosition) ==
    LET pseudoRandom == ((149 * cwPosition) % 253) + 1
        tmp == cwValue + pseudoRandom
    IN  IF tmp > 253 THEN tmp - 254 ELSE tmp

Randomize253State2(cwValue, cwPosition) ==
    LET pseudoRandom == ((149 * cwPosition) % 253) + 1
        tmp == cwValue + pseudoRandom
    IN  IF tmp > 254 THEN tmp - 254 ELSE tmp

Randomize255State2(value, position) ==
    LET pseudoRandom == ((149 * position) % 255) + 1
        tmp == value + pseudoRandom
    IN  IF tmp <= 255 THEN tmp ELSE tmp - 256

(***************************************************************************)
(* Byte arithmetic of the C code (DmtxByte is an unsigned 8-bit value).    *)
(***************************************************************************)
Byte(v) ==
    v % 256

RECURSIVE BitOrN(_, _, _)
BitOrN(a, b, n) ==
    IF n = 0 THEN 0
    ELSE (IF (a % 2 = 1) \/ (b % 2 = 1) THEN 1 ELSE 0)
         + 2 * BitOrN(a \div 2, b \div 2, n - 1)

BitOr(a, b) ==
    BitOrN(a, b, 8)

RECURSIVE BitAndN(_, _, _)
BitAndN(a, b, n) ==
    IF n = 0 THEN 0
    ELSE (IF (a % 2 = 1) /\ (b % 2 = 1) THEN 1 ELSE 0)
         + 2 * BitAndN(a \div 2, b \div 2, n - 1)

BitAnd(a, b) ==
    BitAndN(a, b, 8)

ISDIGIT(v) ==
    v >= 48 /\ v <= 57

AddValues(s, n) ==
    [s EXCEPT !.outputChainValueCount = @ + n]

(***************************************************************************)
(* ASCII.                                                                  *)
(***************************************************************************)
EncodeValueAscii(s, value) ==
    IF s.currentScheme # DmtxSchemeAscii THEN StreamMarkFatal(s, 1)
    ELSE Chk(StreamOutputChainAppend(s, value), LAMBDA a : AddValues(a, 1))

\* variant: a digit is paired with whatever byte follows it
EncodeAsciiPairGreedy(s, v0, v1set, v1) ==
    IF ISDIGIT(v0) /\ v1set
    THEN Chk(StreamInputAdvanceNext(s),
             LAMBDA a : EncodeValueAscii(
                            a, Byte(10 * (v0 - 48) + (v1 - 48) + 130)))
    ELSE IF v0 < 128
    THEN EncodeValueAscii(s, Byte(v0 + 1))
    ELSE Chk(EncodeValueAscii(s, DmtxValueAsciiUpperShift),
             LAMBDA a : EncodeValueAscii(a, Byte(v0 - 127)))

\* lines 270-289, with v0 consumed and v1 peeked (v1set tells whether)
EncodeAsciiPair(s, v0, v1set, v1) ==
    IF ISDIGIT(v0) /\ v1set /\ ISDIGIT(v1)
    THEN \* two adjacent digit chars
         Chk(StreamInputAdvanceNext(s),
             LAMBDA a : EncodeValueAscii(
                            a, Byte(10 * (v0 - 48) + (v1 - 48) + 130)))
    ELSE IF v0 < 128
    THEN \* regular ASCII char
         EncodeValueAscii(s, Byte(v0 + 1))
    ELSE \* extended ASCII char
         Chk(EncodeValueAscii(s, DmtxValueAsciiUpperShift),
             LAMBDA a : EncodeValueAscii(a, Byte(v0 - 127)))

\* variant: the byte after v0 is never looked at
EncodeNextChunkAsciiSingle(s) ==
    IF ~StreamInputHasNext(s) THEN s
    ELSE Chk(StreamInputAdvanceNext(s),
             LAMBDA a : EncodeAsciiPair(a, StreamInputPeekValue(s), FALSE, 0))

EncodeNextChunkAscii(s) ==
    IF ~StreamInputHasNext(s) THEN s
    ELSE Chk(StreamInputAdvanceNext(s),
             LAMBDA a : Chk(IF StreamInputHasNext(a)
                            THEN StreamInputPeekNext(a) ELSE a,
                            LAMBDA b : EncodeAsciiPair(
                                b, StreamInputPeekValue(s),
                                StreamInputHasNext(b), StreamInputPeekValue(b))))

\* variant: the pad is randomized with the position before its own
RECURSIVE PadLoopUnshifted(_, _)
PadLoopUnshifted(s, symbolRemaining) ==
    IF symbolRemaining <= 0 THEN s
    ELSE Chk(StreamOutputChainAppend(
                 s, Randomize253State2(DmtxValueAsciiPad, Len(s.output))),
             LAMBDA a : PadLoopUnshifted(a, symbolRemaining - 1))

RECURSIVE PadLoop(_, _)
PadLoop(s, symbolRemaining) ==
    IF symbolRemaining <= 0 THEN s
    ELSE Chk(StreamOutputChainAppend(
                 s, Randomize253State2(DmtxValueAsciiPad, Len(s.output) + 1)),
             LAMBDA a : PadLoop(a, symbolRemaining - 1))

\* variant: padding omitted
PadNothing(s, idx) ==
    s

PadRemainingInAscii(s, idx) ==
    IF s.currentScheme # DmtxSchemeAscii THEN StreamMarkFatal(s, 1)
    ELSE IF idx = DmtxUndefined THEN StreamMarkInvalid(s, 1)
    ELSE IF GetRemainingSymbolCapacity(Len(s.output), idx) > 0
    THEN \* first pad character is not randomized
         Chk(StreamOutputChainAppend(s, DmtxValueAsciiPad),
             LAMBDA a : PadLoop(
                 a, GetRemainingSymbolCapacity(Len(s.output), idx) - 1))
    ELSE s

\* variant: CHKSIZE omitted before completing
PadThenCompleteNoSize(s, idx) ==
    StreamMarkComplete(s, idx)

\* CHKSIZE; PadRemainingInAscii; CHKERR; StreamMarkComplete
PadThenComplete(s, idx) ==
    IF idx = DmtxUndefined THEN StreamMarkInvalid(s, 1)
    ELSE Chk(PadRemainingInAscii(s, idx),
             LAMBDA a : StreamMarkComplete(a, idx))

CompleteIfDoneAscii(s, requested) ==
    IF StreamInputHasNext(s) THEN s
    ELSE PadThenComplete(s, FindSymbolSize(Len(s.output), requested))

(***************************************************************************)
(* C40 / Text / X12.                                                       *)
(***************************************************************************)
PairValue(values) ==
    (1600 * values[1]) + (40 * values[2]) + values[3] + 1

\* variant: a packed triplet counted as two values
EncodeValuesCTXMiscounted(s, values) ==
    IF s.currentScheme \notin CTXSchemes THEN StreamMarkFatal(s, 1)
    ELSE IF Len(values) # 3 THEN StreamMarkFatal(s, 1)
    ELSE Chk(StreamOutputChainAppend(s, Byte(PairValue(values) \div 256)),
             LAMBDA a : Chk(StreamOutputChainAppend(
                                a, Byte(PairValue(values) % 256)),
                            LAMBDA b : AddValues(b, 2)))

EncodeValuesCTX(s, values) ==
    IF s.currentScheme \notin CTXSchemes THEN StreamMarkFatal(s, 1)
    ELSE IF Len(values) # 3 THEN StreamMarkFatal(s, 1)
    ELSE Chk(StreamOutputChainAppend(s, Byte(PairValue(values) \div 256)),
             LAMBDA a : Chk(StreamOutputChainAppend(
                                a, Byte(PairValue(values) % 256)),
                            LAMBDA b : AddValues(b, 3)))

\* variant: the test of the value count omitted
EncodeUnlatchCTXUnchecked(s) ==
    IF s.currentScheme \notin CTXSchemes THEN StreamMarkFatal(s, 1)
    ELSE Chk(StreamOutputChainAppend(s, DmtxValueCTXUnlatch),
             LAMBDA a : AddValues(a, 1))

EncodeUnlatchCTX(s) ==
    IF s.currentScheme \notin CTXSchemes THEN StreamMarkFatal(s, 1)
    ELSE IF s.outputChainValueCount % 3 # 0
    THEN StreamMarkInvalid(s, 1)
    ELSE Chk(StreamOutputChainAppend(s, DmtxValueCTXUnlatch),
             LAMBDA a : AddValues(a, 1))

\* lines 559-629: the values one input byte (<= 127) adds to the value list
PushCTXBasic(values, inputValue, scheme) ==
    IF scheme = DmtxSchemeX12
    THEN IF inputValue = 13 THEN Append(values, 0)
         ELSE IF inputValue = 42 THEN Append(values, 1)
         ELSE IF inputValue = 62 THEN Append(values, 2)
         ELSE IF inputValue = 32 THEN Append(values, 3)
         ELSE IF inputValue >= 48 /\ inputValue <= 57
              THEN Append(values, inputValue - 44)
         ELSE IF inputValue >= 65 /\ inputValue <= 90
              THEN Append(values, inputValue - 51)
         ELSE values
    ELSE \* scheme is C40 or Text
         IF inputValue <= 31
         THEN values \o <<DmtxValueCTXShift1, inputValue>>
         ELSE IF inputValue = 32 THEN Append(values, 3)
         ELSE IF inputValue <= 47
              THEN values \o <<DmtxValueCTXShift2, inputValue - 33>>
         ELSE IF inputValue <= 57 THEN Append(values, inputValue - 44)
         ELSE IF inputValue <= 64
              THEN values \o <<DmtxValueCTXShift2, inputValue - 43>>
         ELSE IF inputValue <= 90 /\ scheme = DmtxSchemeC40
              THEN Append(values, inputValue - 51)
         ELSE IF inputValue <= 90 /\ scheme = DmtxSchemeText
              THEN values \o <<DmtxValueCTXShift3, inputValue - 64>>
         ELSE IF inputValue <= 95
              THEN values \o <<DmtxValueCTXShift2, inputValue - 69>>
         ELSE IF inputValue = 96 /\ scheme = DmtxSchemeText
              THEN values \o <<DmtxValueCTXShift3, 0>>
         ELSE IF inputValue <= 122 /\ scheme = DmtxSchemeText
              THEN Append(values, inputValue - 83)
         ELSE IF inputValue <= 127
              THEN values \o <<DmtxValueCTXShift3, inputValue - 96>>
         ELSE values

PushCTXValues(values, inputValue, scheme) ==
    IF inputValue > 127
    THEN IF scheme = DmtxSchemeX12
         THEN values
         ELSE PushCTXBasic(values \o <<DmtxValueCTXShift2, 30>>,
                           inputValue - 128, scheme)
    ELSE PushCTXBasic(values, inputValue, scheme)

\* variant: two leftover values are padded whatever room the symbol has
CompletePartialCTXAnyRoom(s, values, idx, symbolRemaining) ==
    IF idx = DmtxUndefined THEN StreamMarkInvalid(s, 1)
    ELSE IF Len(values) = 2
    THEN Chk(EncodeValuesCTX(s, Append(values, DmtxValueCTXShift1)),
             LAMBDA a : StreamMarkComplete(a, idx))
    ELSE s

\* lines 493-531, with the symbol size already found
CompletePartialCTX(s, values, idx, symbolRemaining) ==
    IF idx = DmtxUndefined THEN StreamMarkInvalid(s, 1)
    ELSE IF Len(values) = 2 /\ symbolRemaining = 2
    THEN \* end of symbol condition (b): Shift1 pads the final triplet
         Chk(EncodeValuesCTX(s, Append(values, DmtxValueCTXShift1)),
             LAMBDA a : StreamMarkComplete(a, idx))
    ELSE s

CompleteIfDonePartialCTX(s, values, requested) ==
    IF s.currentScheme \notin CTXSchemes THEN StreamMarkFatal(s, 1)
    ELSE CompletePartialCTX(
             s, values, FindSymbolSize(Len(s.output), requested),
             GetRemainingSymbolCapacity(
                 Len(s.output), FindSymbolSize(Len(s.output), requested)))

(***************************************************************************)
(* EDIFACT value packing.                                                  *)
(***************************************************************************)
\* replace the last output byte by (last | orBits), then append each of more
EdifactMerge(s, orBits, more) ==
    Chk(StreamOutputChainRemoveLast(s),
        LAMBDA a : Chk(StreamOutputChainAppend(
                           a, BitOr(StreamOutputLastValue(s), orBits)),
                       LAMBDA b : IF more = <<>> THEN b
                                  ELSE StreamOutputChainAppend(b, more[1])))

\* variant: the third value of a group put two bits too high
EdifactPackMisaligned(s, edifactValue, phase) ==
    CASE phase = 0 -> StreamOutputChainAppend(s, edifactValue)
      [] phase = 1 -> EdifactMerge(s, edifactValue \div 64,
                                   <<Byte(edifactValue * 4)>>)
      [] phase = 2 -> EdifactMerge(s, edifactValue \div 64,
                                   <<Byte(edifactValue * 4)>>)
      [] OTHER     -> EdifactMerge(s, edifactValue \div 4, <<>>)

\* lines 651-672: pack one 6-bit value at the chain's bit position
EdifactPack(s, edifactValue, phase) ==
    CASE phase = 0 -> StreamOutputChainAppend(s, edifactValue)
      [] phase = 1 -> EdifactMerge(s, edifactValue \div 64,
                                   <<Byte(edifactValue * 4)>>)
      [] phase = 2 -> EdifactMerge(s, edifactValue \div 16,
                                   <<Byte(edifactValue * 16)>>)
      [] OTHER     -> EdifactMerge(s, edifactValue \div 4, <<>>)

\* variant: the [31, 94] range test omitted
EncodeValueEdifactUnchecked(s, value) ==
    IF s.currentScheme # DmtxSchemeEdifact THEN StreamMarkFatal(s, 1)
    ELSE Chk(EdifactPack(s, Byte(BitAnd(value, 63) * 4),
                         s.outputChainValueCount % 4),
             LAMBDA a : AddValues(a, 1))

EncodeValueEdifact(s, value) ==
    IF s.currentScheme # DmtxSchemeEdifact THEN StreamMarkFatal(s, 1)
    ELSE IF value < 31 \/ value > 94
    THEN StreamMarkInvalid(s, DmtxChannelUnsupportedChar)
    ELSE Chk(EdifactPack(s, Byte(BitAnd(value, 63) * 4),
                         s.outputChainValueCount % 4),
             LAMBDA a : AddValues(a, 1))

EncodeNextChunkEdifact(s) ==
    IF ~StreamInputHasNext(s) THEN s
    ELSE Chk(StreamInputAdvanceNext(s),
             LAMBDA a : EncodeValueEdifact(a, StreamInputPeekValue(s)))

(***************************************************************************)
(* Base 256 chain header.                                                  *)
(***************************************************************************)
\* lines 795-812: the header byte count after the adjustment
HeaderByteCount(s, perfectSizeIdx) ==
    LET n == s.outputChainWordCount - s.outputChainValueCount
    IN  IF n = 0 /\ s.outputChainWordCount = 0 THEN n + 1
        ELSE IF n = 1 /\ s.outputChainValueCount > 249 THEN n + 1
        ELSE IF n = 2 /\ perfectSizeIdx # DmtxUndefined THEN n - 1
        ELSE n

\* the adjustment without the second header byte past 249 values
AdjustHeaderNoInsert(s, perfectSizeIdx) ==
    LET n == s.outputChainWordCount - s.outputChainValueCount
    IN  IF n = 0 /\ s.outputChainWordCount = 0
        THEN StreamOutputChainAppend(s, 0)
        ELSE IF n = 2 /\ perfectSizeIdx # DmtxUndefined
        THEN StreamOutputChainRemoveFirst(s)
        ELSE s

\* lines 795-812: the header is given the right number of bytes
AdjustHeader(s, perfectSizeIdx) ==
    LET n == s.outputChainWordCount - s.outputChainValueCount
    IN  IF n = 0 /\ s.outputChainWordCount = 0
        THEN StreamOutputChainAppend(s, 0)
        ELSE IF n = 1 /\ s.outputChainValueCount > 249
        THEN StreamOutputChainInsertFirst(s)
        ELSE IF n = 2 /\ perfectSizeIdx # DmtxUndefined
        THEN StreamOutputChainRemoveFirst(s)
        ELSE s

\* lines 818-849: the header byte(s) are written with the current length
WriteHeader(s, headerIndex, headerByteCount, outputLength, perfectSizeIdx) ==
    IF headerByteCount = 1 /\ perfectSizeIdx # DmtxUndefined
    THEN IF dmtxGetSymbolAttribute(perfectSizeIdx) # Len(s.output)
         THEN StreamMarkFatal(s, 1)
         ELSE StreamOutputSet(s, headerIndex,
                              Randomize255State2(0, headerIndex + 1))
    ELSE IF headerByteCount = 1 /\ perfectSizeIdx = DmtxUndefined
    THEN StreamOutputSet(s, headerIndex,
                         Randomize255State2(Byte(outputLength), headerIndex + 1))
    ELSE IF headerByteCount = 2 /\ perfectSizeIdx = DmtxUndefined
    THEN Chk(StreamOutputSet(
                 s, headerIndex,
                 Randomize255State2(Byte(outputLength \div 250 + 249),
                                    headerIndex + 1)),
             LAMBDA a : StreamOutputSet(
                 a, headerIndex + 1,
                 Randomize255State2(Byte(outputLength % 250), headerIndex + 2)))
    ELSE StreamMarkFatal(s, 1)

UpdateBase256ChainHeader(s, perfectSizeIdx) ==
    Chk(AdjustHeader(s, perfectSizeIdx),
        LAMBDA a : WriteHeader(a, Len(s.output) - s.outputChainWordCount,
                               HeaderByteCount(s, perfectSizeIdx),
                               s.outputChainValueCount, perfectSizeIdx))

(***************************************************************************)
(* Scheme change.                                                          *)
(***************************************************************************)
LatchOf(scheme) ==
    CASE scheme = DmtxSchemeC40     -> DmtxValueC40Latch
      [] scheme = DmtxSchemeText    -> DmtxValueTextLatch
      [] scheme = DmtxSchemeX12     -> DmtxValueX12Latch
      [] scheme = DmtxSchemeEdifact -> DmtxValueEdifactLatch
      [] scheme = DmtxSchemeBase256 -> DmtxValueBase256Latch

\* history: the codeword just appended is a latch
NoteLatch(s) ==
    [s EXCEPT !.latchAt = @ \cup {Len(s.output)}]

\* lines 171-194: leave the current scheme for ASCII
EncodeChangeSchemeExit(s, unlatchType) ==
    Chk(IF s.currentScheme \in CTXSchemes /\ unlatchType = DmtxUnlatchExplicit
        THEN EncodeUnlatchCTX(s)
        ELSE IF s.currentScheme = DmtxSchemeEdifact
                /\ unlatchType = DmtxUnlatchExplicit
        THEN EncodeValueEdifact(s, DmtxValueEdifactUnlatch)
        ELSE s,
        LAMBDA a : SetScheme(a, DmtxSchemeAscii))

\* lines 219-229: the target scheme is current, its chain starts empty
StartChain(s, target) ==
    IF target = DmtxSchemeBase256
    THEN UpdateBase256ChainHeader(
             [SetScheme(s, target) EXCEPT !.outputChainWordCount = 0,
                                          !.outputChainValueCount = 0],
             DmtxUndefined)
    ELSE [SetScheme(s, target) EXCEPT !.outputChainWordCount = 0,
                                      !.outputChainValueCount = 0]

\* variant: the target scheme made current before its latch is appended
EncodeChangeSchemeLatchLate(s, target) ==
    Chk(IF target # DmtxSchemeAscii
        THEN Chk(StreamOutputChainAppend(SetScheme(s, target), LatchOf(target)),
                 NoteLatch)
        ELSE s,
        LAMBDA a : StartChain(a, target))

\* lines 196-229: latch from ASCII to the target scheme, start the new chain
EncodeChangeSchemeLatch(s, target) ==
    Chk(IF target # DmtxSchemeAscii
        THEN Chk(EncodeValueAscii(s, LatchOf(target)), NoteLatch)
        ELSE IF s.currentScheme # DmtxSchemeAscii
        THEN StreamMarkFatal(s, 1)
        ELSE s,
        LAMBDA a : StartChain(a, target))

EncodeChangeScheme(s, target, unlatchType) ==
    IF s.currentScheme = target THEN s
    ELSE Chk(EncodeChangeSchemeExit(s, unlatchType),
             LAMBDA a : EncodeChangeSchemeLatch(a, target))

(***************************************************************************)
(* End-of-symbol handling.                                                 *)
(***************************************************************************)
\* lines 433-444, with the symbol size already found
CompleteCTX(s, idx, symbolRemaining) ==
    IF idx = DmtxUndefined THEN StreamMarkInvalid(s, 1)
    ELSE IF StreamInputHasNext(s) THEN s
    ELSE IF symbolRemaining = 0
    THEN StreamMarkComplete(s, idx)
    ELSE EncodeChangeScheme(s, DmtxSchemeAscii, DmtxUnlatchExplicit)

CompleteIfDoneCTX(s, requested) ==
    CompleteCTX(s, FindSymbolSize(Len(s.output), requested),
                GetRemainingSymbolCapacity(
                    Len(s.output), FindSymbolSize(Len(s.output), requested)))

\* the scratch stream of EncodeTmpRemainingInAscii: a copy writing to storage
ScratchStream(s, capacity) ==
    [s EXCEPT !.currentScheme = DmtxSchemeAscii,
              !.outputChainValueCount = 0,
              !.outputChainWordCount = 0,
              !.reason = DmtxUndefined,
              !.sizeIdx = DmtxUndefined,
              !.status = DmtxStatusEncoding,
              !.output = <<>>,
              !.outScheme = <<>>,
              !.capacity = capacity]

RECURSIVE TmpLoop(_)
TmpLoop(a) ==
    IF Len(a.output) < a.capacity /\ StreamInputHasNext(a)
    THEN Then(EncodeNextChunkAscii(a), TmpLoop)
    ELSE a

\* the scratch stream as EncodeTmpRemainingInAscii leaves it: its output is
\* the returned list, its status decides passFail
EncodeTmpRemainingInAscii(s, capacity) ==
    TmpLoop(ScratchStream(s, capacity))

TmpPassFail(streamAscii) ==
    IF streamAscii.status = DmtxStatusEncoding THEN "Pass" ELSE "Fail"

RECURSIVE EncodeValuesAscii(_, _)
EncodeValuesAscii(s, words) ==
    IF words = <<>> THEN s
    ELSE Chk(EncodeValueAscii(s, Head(words)),
             LAMBDA a : EncodeValuesAscii(a, Tail(words)))

EdifactScratchCapacity == 3

\* lines 760-765
EdifactFinishAscii(s, idx) ==
    PadThenComplete([Wrote(s) EXCEPT !.inputNext = Len(input)], idx)

\* lines 748-766, with the scratch encoding done
EdifactImplicit(s, outputTmp, tmpPassFail, cleanBoundary, idx, symbolRemaining) ==
    IF tmpPassFail = "Fail" \/ Len(outputTmp) > symbolRemaining
    THEN s  \* does not fit, continue encoding
    ELSE IF cleanBoundary /\ (Len(outputTmp) = 1 \/ Len(outputTmp) = 2)
    THEN Chk(EncodeChangeScheme(s, DmtxSchemeAscii, DmtxUnlatchImplicit),
             LAMBDA a : Chk(EncodeValuesAscii(a, outputTmp),
                            LAMBDA b : EdifactFinishAscii(b, idx)))
    ELSE s

\* variant: the symbol size found before the unlatch is used for the pads
CompleteEdifactStaleSize(s, requested, cleanBoundary, idx, symbolRemaining, tmp) ==
    IF idx = DmtxUndefined THEN StreamMarkInvalid(s, 1)
    ELSE IF ~StreamInputHasNext(s)
    THEN IF ~cleanBoundary \/ symbolRemaining > 0
         THEN Chk(EncodeChangeScheme(s, DmtxSchemeAscii, DmtxUnlatchExplicit),
                  LAMBDA a : PadThenComplete(a, idx))
         ELSE StreamMarkComplete(s, idx)
    ELSE EdifactImplicit(s, tmp.output, TmpPassFail(tmp), cleanBoundary, idx,
                         symbolRemaining)

\* lines 727-767, with the boundary and the symbol size already found
CompleteEdifact(s, requested, cleanBoundary, idx, symbolRemaining, tmp) ==
    IF idx = DmtxUndefined THEN StreamMarkInvalid(s, 1)
    ELSE IF ~StreamInputHasNext(s)
    THEN IF ~cleanBoundary \/ symbolRemaining > 0
         THEN \* explicit unlatch, then pad
              Chk(EncodeChangeScheme(s, DmtxSchemeAscii, DmtxUnlatchExplicit),
                  LAMBDA a : PadThenComplete(
                                 a, FindSymbolSize(Len(a.output), requested)))
         ELSE StreamMarkComplete(s, idx)
    ELSE EdifactImplicit(s, tmp.output, TmpPassFail(tmp), cleanBoundary, idx,
                         symbolRemaining)

CompleteIfDoneEdifact(s, requested) ==
    CompleteEdifact(s, requested, s.outputChainValueCount % 4 = 0,
                    FindSymbolSize(Len(s.output), requested),
                    GetRemainingSymbolCapacity(
                        Len(s.output), FindSymbolSize(Len(s.output), requested)),
                    EncodeTmpRemainingInAscii(s, EdifactScratchCapacity))

(***************************************************************************)
(* Base 256.                                                               *)
(***************************************************************************)
EncodeValueBase256(s, value) ==
    IF s.currentScheme # DmtxSchemeBase256 THEN StreamMarkFatal(s, 1)
    ELSE Chk(StreamOutputChainAppend(
                 s, Randomize255State2(value, Len(s.output) + 1)),
             LAMBDA a : UpdateBase256ChainHeader(AddValues(a, 1), DmtxUndefined))

EncodeNextChunkBase256(s) ==
    IF ~StreamInputHasNext(s) THEN s
    ELSE Chk(StreamInputAdvanceNext(s),
             LAMBDA a : EncodeValueBase256(a, StreamInputPeekValue(s)))

\* lines 920-924: no status check between the three calls
CompleteBase256Normal(s, idx) ==
    IF idx = DmtxUndefined THEN StreamMarkInvalid(s, 1)
    ELSE StreamMarkComplete(
             PadRemainingInAscii(
                 EncodeChangeScheme(s, DmtxSchemeAscii, DmtxUnlatchImplicit),
                 idx),
             idx)

\* variant: the probe made with both header bytes still counted
Base256PerfectFitUnshortened(s, idx) ==
    /\ s.outputChainWordCount - s.outputChainValueCount = 2
    /\ idx # DmtxUndefined
    /\ GetRemainingSymbolCapacity(Len(s.output), idx) = 0

\* lines 897-918: the chain fits the symbol exactly with one header byte
Base256PerfectFit(s, idx) ==
    /\ s.outputChainWordCount - s.outputChainValueCount = 2
    /\ idx # DmtxUndefined
    /\ GetRemainingSymbolCapacity(Len(s.output) - 1, idx) = 0

CompleteIfDoneBase256(s, requested) ==
    IF StreamInputHasNext(s) THEN s
    ELSE IF Base256PerfectFit(s, FindSymbolSize(Len(s.output) - 1, requested))
    THEN Chk(UpdateBase256ChainHeader(
                 s, FindSymbolSize(Len(s.output) - 1, requested)),
             LAMBDA a : StreamMarkComplete(
                 a, FindSymbolSize(Len(s.output) - 1, requested)))
    ELSE CompleteBase256Normal(s, FindSymbolSize(Len(s.output), requested))

(***************************************************************************)
(* The state as a stream record, and back.                                 *)
(***************************************************************************)
\* stream->output.capacity: the caller's buffer is sized for the input
BufferCapacity ==
    IF input \in LongInputs THEN LongOutputCapacity ELSE OutputCapacity

Stream ==
    [output |-> output, capacity |-> BufferCapacity, inputNext |-> inputNext,
     currentScheme |-> currentScheme,
     outputChainValueCount |-> outputChainValueCount,
     outputChainWordCount |-> outputChainWordCount,
     status |-> status, reason |-> reason, sizeIdx |-> sizeIdx,
     late |-> late, outScheme |-> outScheme, latchAt |-> latchAt,
     schemeTrail |-> schemeTrail]

Store(s) ==
    /\ output' = s.output
    /\ inputNext' = s.inputNext
    /\ currentScheme' = s.currentScheme
    /\ outputChainValueCount' = s.outputChainValueCount
    /\ outputChainWordCount' = s.outputChainWordCount
    /\ status' = s.status
    /\ reason' = s.reason
    /\ sizeIdx' = s.sizeIdx
    /\ late' = s.late
    /\ outScheme' = s.outScheme
    /\ latchAt' = s.latchAt
    /\ schemeTrail' = s.schemeTrail

args == <<input, targetScheme, requestedSizeIdx>>

streamVars == <<output, inputNext, currentScheme, outputChainValueCount,
                outputChainWordCount, status, reason, sizeIdx, late, outScheme,
                latchAt, schemeTrail>>

(***************************************************************************)
(* Initial states: a fresh stream over each input, handed to               *)
(* EncodeSingleScheme2 with each target scheme and size hint.              *)
(***************************************************************************)
Init ==
    /\ input \in Inputs
    /\ targetScheme \in Schemes
    /\ requestedSizeIdx \in SizeHints
    /\ currentScheme \in Schemes
    /\ output = <<>>
    /\ inputNext = 0
    /\ outputChainValueCount = 0
    /\ outputChainWordCount = 0
    /\ status = DmtxStatusEncoding
    /\ reason = DmtxUndefined
    /\ sizeIdx = DmtxUndefined
    /\ late = FALSE
    /\ outScheme = <<>>
    /\ latchAt = {}
    /\ schemeTrail = <<currentScheme>>
    /\ valueList = <<>>
    /\ pc = "enter"
    /\ passFail = "None"

\* the dispatcher's while test, once a call of EncodeNextChunk has returned
LoopTest(s) ==
    IF s.status = DmtxStatusEncoding THEN "next" ELSE "return"

\* variant: CHKERR omitted after EncodeNextChunk[Scheme]
AfterChunkNoCheck(s) ==
    "complete"

\* CHKERR between EncodeNextChunk[Scheme] and CompleteIfDone[Scheme]
AfterChunk(s) ==
    IF s.status = DmtxStatusEncoding THEN "complete" ELSE "return"

\* CHKERR; CHKSCHEME(targetScheme) after the scheme change, lines 130-131
AfterChange(s) ==
    IF s.status = DmtxStatusEncoding THEN "chunk" ELSE "return"

\* the stream becomes s and control moves to where(s)
Step(s, where(_)) ==
    \E x \in {s} : /\ Store(x)
                   /\ pc' = where(x)

\* variant: the entry test of the current scheme omitted
EnterUnchecked ==
    /\ pc = "enter"
    /\ UNCHANGED streamVars
    /\ passFail' = passFail
    /\ pc' = "next"
    /\ UNCHANGED <<args, valueList>>

\* EncodeSingleScheme2, lines 102-108
Enter ==
    /\ pc = "enter"
    /\ IF currentScheme # DmtxSchemeAscii
       THEN /\ Store(StreamMarkFatal(Stream, 1))
            /\ passFail' = "Fail"
            /\ pc' = "done"
       ELSE /\ UNCHANGED streamVars
            /\ passFail' = passFail
            /\ pc' = "next"
    /\ UNCHANGED <<args, valueList>>

\* lines 130-131: CHKSCHEME(targetScheme) after the change
CheckTarget(s) ==
    IF s.status = DmtxStatusEncoding /\ s.currentScheme # targetScheme
    THEN StreamMarkFatal(s, 1) ELSE s

\* EncodeNextChunk, lines 128-132
ChangeScheme ==
    /\ pc = "next"
    /\ currentScheme # targetScheme
    /\ Step(CheckTarget(EncodeChangeScheme(Stream, targetScheme,
                                           DmtxUnlatchExplicit)),
            AfterChange)
    /\ UNCHANGED <<args, valueList, passFail>>

AtChunk ==
    \/ pc = "chunk"
    \/ pc = "next" /\ currentScheme = targetScheme

ChunkAscii ==
    /\ AtChunk
    /\ currentScheme = DmtxSchemeAscii
    /\ Step(EncodeNextChunkAscii(Stream), AfterChunk)
    /\ UNCHANGED <<args, valueList, passFail>>

ChunkEdifact ==
    /\ AtChunk
    /\ currentScheme = DmtxSchemeEdifact
    /\ Step(EncodeNextChunkEdifact(Stream), AfterChunk)
    /\ UNCHANGED <<args, valueList, passFail>>

ChunkBase256 ==
    /\ AtChunk
    /\ currentScheme = DmtxSchemeBase256
    /\ Step(EncodeNextChunkBase256(Stream), AfterChunk)
    /\ UNCHANGED <<args, valueList, passFail>>

\* the value list at the outer loop test: empty when the chunk starts
ValuesNow ==
    IF pc = "ctx_outer" THEN valueList ELSE <<>>

\* EncodeNextChunkCTX, lines 386-390: one pass of the outer loop test and read
ChunkCTXRead ==
    /\ AtChunk \/ pc = "ctx_outer"
    /\ currentScheme \in CTXSchemes
    /\ IF StreamInputHasNext(Stream)
       THEN /\ Store(StreamInputAdvanceNext(Stream))
            /\ valueList' = PushCTXValues(ValuesNow, StreamInputPeekValue(Stream),
                                          currentScheme)
            /\ pc' = "ctx_inner"
       ELSE /\ UNCHANGED streamVars
            /\ valueList' = ValuesNow
            /\ pc' = "ctx_tail"
    /\ UNCHANGED <<args, passFail>>

\* variant: CHKERR omitted inside the inner loop
AfterFlushNoCheck(s) ==
    "ctx_inner"

\* where the inner loop goes after one EncodeValuesCTX; CHKERR
AfterFlush(s) ==
    IF s.status = DmtxStatusEncoding THEN "ctx_inner" ELSE "return"

\* EncodeNextChunkCTX, lines 393-397: one iteration of the inner loop
ChunkCTXFlush ==
    /\ pc = "ctx_inner"
    /\ Len(valueList) >= 3
    /\ Step(EncodeValuesCTX(Stream, valueList), AfterFlush)
    /\ valueList' = IF pc' = "return" THEN <<>> ELSE valueList
    /\ UNCHANGED <<args, passFail>>

\* EncodeNextChunkCTX, lines 393 and 399-402: the inner loop ends
ChunkCTXFlushed ==
    /\ pc = "ctx_inner"
    /\ Len(valueList) < 3
    /\ pc' = IF Len(valueList) = 0 THEN "ctx_tail" ELSE "ctx_outer"
    /\ UNCHANGED <<args, streamVars, valueList, passFail>>

\* EncodeNextChunkCTX, lines 409-412
ChunkCTXTail ==
    /\ pc = "ctx_tail"
    /\ Step(IF ~StreamInputHasNext(Stream) /\ Len(valueList) > 0
            THEN CompleteIfDonePartialCTX(Stream, valueList, requestedSizeIdx)
            ELSE Stream,
            AfterChunk)
    /\ valueList' = <<>>
    /\ UNCHANGED <<args, passFail>>

CompleteAscii ==
    /\ pc = "complete"
    /\ currentScheme = DmtxSchemeAscii
    /\ Step(CompleteIfDoneAscii(Stream, requestedSizeIdx), LoopTest)
    /\ UNCHANGED <<args, valueList, passFail>>

CompleteCTXStep ==
    /\ pc = "complete"
    /\ currentScheme \in CTXSchemes
    /\ Step(CompleteIfDoneCTX(Stream, requestedSizeIdx), LoopTest)
    /\ UNCHANGED <<args, valueList, passFail>>

CompleteEdifactStep ==
    /\ pc = "complete"
    /\ currentScheme = DmtxSchemeEdifact
    /\ Step(CompleteIfDoneEdifact(Stream, requestedSizeIdx), LoopTest)
    /\ UNCHANGED <<args, valueList, passFail>>

CompleteBase256 ==
    /\ pc = "complete"
    /\ currentScheme = DmtxSchemeBase256
    /\ Step(CompleteIfDoneBase256(Stream, requestedSizeIdx), LoopTest)
    /\ UNCHANGED <<args, valueList, passFail>>

\* EncodeSingleScheme2, lines 111-114
Return ==
    /\ pc = "return"
    /\ passFail' = IF status # DmtxStatusComplete \/ StreamInputHasNext(Stream)
                   THEN "Fail" ELSE "Pass"
    /\ pc' = "done"
    /\ UNCHANGED <<args, streamVars, valueList>>

Next ==
    \/ Enter
    \/ ChangeScheme
    \/ ChunkAscii
    \/ ChunkEdifact
    \/ ChunkBase256
    \/ ChunkCTXRead
    \/ ChunkCTXFlush
    \/ ChunkCTXFlushed
    \/ ChunkCTXTail
    \/ CompleteAscii
    \/ CompleteCTXStep
    \/ CompleteEdifactStep
    \/ CompleteBase256
    \/ Return

Spec ==
    Init /\ [][Next]_vars

\* the encoder is one sequential call: it keeps running until it returns
FairSpec ==
    Spec /\ WF_vars(Next)

(***************************************************************************)
(* Base 256 encodes of long inputs: every hint, the dispatcher's Base 256   *)
(* steps only.                                                             *)
(***************************************************************************)
LongInit ==
    /\ input \in Base256Inputs
    /\ targetScheme = DmtxSchemeBase256
    /\ requestedSizeIdx \in {DmtxSymbolSquareAuto, 1, 14, 15}
    /\ currentScheme = DmtxSchemeAscii
    /\ output = <<>>
    /\ inputNext = 0
    /\ outputChainValueCount = 0
    /\ outputChainWordCount = 0
    /\ status = DmtxStatusEncoding
    /\ reason = DmtxUndefined
    /\ sizeIdx = DmtxUndefined
    /\ late = FALSE
    /\ outScheme = <<>>
    /\ latchAt = {}
    /\ schemeTrail = <<currentScheme>>
    /\ valueList = <<>>
    /\ pc = "enter"
    /\ passFail = "None"

LongNext ==
    \/ Enter
    \/ ChangeScheme
    \/ ChunkBase256
    \/ CompleteBase256
    \/ Return

LongSpec ==
    LongInit /\ [][LongNext]_vars

(***************************************************************************)
(* Randomize253State2 on its own: one call per behaviour, with cwValue     *)
(* held in input[1] and cwPosition in inputNext; the result is the one     *)
(* codeword of the output.                                                 *)
(***************************************************************************)
\* the largest codeword position the function is applied to
MaxPosition == 4096

Positions ==
    1..MaxPosition

RandomizeInit ==
    /\ input \in {<<v>> : v \in 0..255}
    /\ inputNext \in Positions
    /\ targetScheme = DmtxSchemeAscii
    /\ requestedSizeIdx = DmtxSymbolSquareAuto
    /\ currentScheme = DmtxSchemeAscii
    /\ output = <<>>
    /\ outputChainValueCount = 0
    /\ outputChainWordCount = 0
    /\ status = DmtxStatusEncoding
    /\ reason = DmtxUndefined
    /\ sizeIdx = DmtxUndefined
    /\ late = FALSE
    /\ outScheme = <<>>
    /\ latchAt = {}
    /\ schemeTrail = <<currentScheme>>
    /\ valueList = <<>>
    /\ pc = "randomize"
    /\ passFail = "None"

CallRandomize253 ==
    /\ pc = "randomize"
    /\ output' = <<Randomize253State2(input[1], inputNext)>>
    /\ pc' = "randomized"
    /\ UNCHANGED <<args, inputNext, currentScheme, outputChainValueCount,
                   outputChainWordCount, status, reason, sizeIdx, late,
                   outScheme, latchAt, schemeTrail, valueList, passFail>>

RandomizeNext ==
    CallRandomize253

RandomizeSpec ==
    RandomizeInit /\ [][RandomizeNext]_vars

(***************************************************************************)
(* EncodeValueEdifact call by call: an EDIFACT chain just latched, and the  *)
(* bytes of the input encoded one per step, with no end-of-symbol handling. *)
(***************************************************************************)
\* largest number of values encoded into the chain
MaxEdifactValues == 5

\* bytes at the ends and in the middle of the EDIFACT range [31, 94]
EdifactBytes == {31, 32, 63, 64, 94}

EdifactInit ==
    /\ input \in SeqUpTo(EdifactBytes, MaxEdifactValues)
    /\ targetScheme = DmtxSchemeEdifact
    /\ requestedSizeIdx = DmtxSymbolSquareAuto
    /\ currentScheme = DmtxSchemeEdifact
    /\ output = <<DmtxValueEdifactLatch>>
    /\ inputNext = 0
    /\ outputChainValueCount = 0
    /\ outputChainWordCount = 0
    /\ status = DmtxStatusEncoding
    /\ reason = DmtxUndefined
    /\ sizeIdx = DmtxUndefined
    /\ late = FALSE
    /\ outScheme = <<DmtxSchemeAscii>>
    /\ latchAt = {1}
    /\ schemeTrail = <<DmtxSchemeAscii, DmtxSchemeEdifact>>
    /\ valueList = <<>>
    /\ pc = "in_chain"
    /\ passFail = "None"

\* where control is after the call: still in the chain
InChain(s) ==
    "in_chain"

CallEncodeValueEdifact ==
    /\ pc = "in_chain"
    /\ status = DmtxStatusEncoding
    /\ StreamInputHasNext(Stream)
    /\ Step(EncodeNextChunkEdifact(Stream), InChain)
    /\ UNCHANGED <<args, valueList, passFail>>

EdifactNext ==
    CallEncodeValueEdifact

EdifactSpec ==
    EdifactInit /\ [][EdifactNext]_vars

(***************************************************************************)
(* EncodeTmpRemainingInAscii on its own: an EDIFACT chain over any input,  *)
(* grown value by value, and the probe called at any point of it. The list *)
(* the probe returns is held in valueList, its passFail in passFail.       *)
(***************************************************************************)
ProbeInit ==
    /\ input \in Inputs
    /\ targetScheme = DmtxSchemeEdifact
    /\ requestedSizeIdx = DmtxSymbolSquareAuto
    /\ currentScheme = DmtxSchemeEdifact
    /\ output = <<DmtxValueEdifactLatch>>
    /\ inputNext = 0
    /\ outputChainValueCount = 0
    /\ outputChainWordCount = 0
    /\ status = DmtxStatusEncoding
    /\ reason = DmtxUndefined
    /\ sizeIdx = DmtxUndefined
    /\ late = FALSE
    /\ outScheme = <<DmtxSchemeAscii>>
    /\ latchAt = {1}
    /\ schemeTrail = <<DmtxSchemeAscii, DmtxSchemeEdifact>>
    /\ valueList = <<>>
    /\ pc = "in_chain"
    /\ passFail = "None"

\* variant: the probe works on the stream itself, not on a copy, and only
\* its output is redirected
AfterProbeInPlace(s, streamAscii) ==
    [streamAscii EXCEPT !.output = s.output,
                        !.outScheme = s.outScheme,
                        !.capacity = s.capacity]

\* line 1032: streamAscii = *stream; the probe writes to the copy only, so
\* the stream after the call is the stream before it
AfterProbe(s, streamAscii) ==
    s

\* where control is after the probe has returned
Probed(s) ==
    "probed"

CallEncodeTmpRemainingInAscii ==
    /\ pc = "in_chain"
    /\ status = DmtxStatusEncoding
    /\ \E streamAscii \in {EncodeTmpRemainingInAscii(Stream,
                                                     EdifactScratchCapacity)} :
           /\ Step(AfterProbe(Stream, streamAscii), Probed)
           /\ valueList' = streamAscii.output
           /\ passFail' = TmpPassFail(streamAscii)
    /\ UNCHANGED args

ProbeNext ==
    \/ CallEncodeValueEdifact
    \/ CallEncodeTmpRemainingInAscii

ProbeSpec ==
    ProbeInit /\ [][ProbeNext]_vars

(***************************************************************************)
(* Leaving a C40/Text/X12 chain, function by function: EncodeUnlatchCTX    *)
(* and EncodeChangeScheme applied to a stream inside a chain of any value  *)
(* count.                                                                  *)
(***************************************************************************)
\* largest value count of the chain the functions are applied to
MaxChainValues == 6

\* bytes the chain is filled with
ChainFill == {0, 100, 200}

UnlatchInit ==
    /\ input = <<>>
    /\ targetScheme = DmtxSchemeAscii
    /\ requestedSizeIdx = DmtxSymbolSquareAuto
    /\ currentScheme \in CTXSchemes
    /\ outputChainValueCount \in 0..MaxChainValues
    /\ outputChainWordCount = 2 * (outputChainValueCount \div 3)
    /\ \E b \in ChainFill :
           output = <<LatchOf(currentScheme)>>
                    \o [i \in 1..outputChainWordCount |-> b]
    /\ inputNext = 0
    /\ status = DmtxStatusEncoding
    /\ reason = DmtxUndefined
    /\ sizeIdx = DmtxUndefined
    /\ late = FALSE
    /\ outScheme = <<DmtxSchemeAscii>>
                   \o [i \in 1..outputChainWordCount |-> currentScheme]
    /\ latchAt = {1}
    /\ schemeTrail = <<DmtxSchemeAscii, currentScheme>>
    /\ valueList = <<>>
    /\ pc = "in_chain"
    /\ passFail = "None"

\* where control is after a function applied to the chain has returned
Unlatched(s) ==
    "unlatched"

ExitedExplicit(s) ==
    "exited_explicit"

ExitedImplicit(s) ==
    "exited_implicit"

CallUnlatchCTX ==
    /\ pc = "in_chain"
    /\ Step(EncodeUnlatchCTX(Stream), Unlatched)
    /\ UNCHANGED <<args, valueList, passFail>>

CallExitExplicit ==
    /\ pc = "in_chain"
    /\ Step(EncodeChangeScheme(Stream, DmtxSchemeAscii, DmtxUnlatchExplicit),
            ExitedExplicit)
    /\ UNCHANGED <<args, valueList, passFail>>

CallExitImplicit ==
    /\ pc = "in_chain"
    /\ Step(EncodeChangeScheme(Stream, DmtxSchemeAscii, DmtxUnlatchImplicit),
            ExitedImplicit)
    /\ UNCHANGED <<args, valueList, passFail>>

UnlatchNext ==
    \/ CallUnlatchCTX
    \/ CallExitExplicit
    \/ CallExitImplicit

UnlatchSpec ==
    UnlatchInit /\ [][UnlatchNext]_vars

(***************************************************************************)
(* Reading a codeword sequence back by the rules of the symbology: ASCII   *)
(* values, the five latches, C40/Text/X12 triplets with their shift sets,  *)
(* EDIFACT 6-bit values with the implied unlatch when fewer than three     *)
(* codewords remain after a group, and Base 256 with its length header.    *)
(***************************************************************************)
UnRandomize255State(value, position) ==
    LET pseudoRandom == ((149 * position) % 255) + 1
        tmp == value - pseudoRandom
    IN  IF tmp >= 0 THEN tmp ELSE tmp + 256

X12Char(v) ==
    IF v = 0 THEN 13
    ELSE IF v = 1 THEN 42
    ELSE IF v = 2 THEN 62
    ELSE IF v = 3 THEN 32
    ELSE IF v <= 13 THEN v + 44
    ELSE v + 51

CTXChar(v, scheme, shift) ==
    CASE shift = 0 -> IF v = 3 THEN 32
                      ELSE IF v <= 13 THEN v + 44
                      ELSE IF scheme = DmtxSchemeText THEN v + 83
                      ELSE v + 51
      [] shift = 1 -> v
      [] shift = 2 -> IF v <= 14 THEN v + 33
                      ELSE IF v <= 21 THEN v + 43
                      ELSE v + 69
      [] OTHER     -> IF scheme = DmtxSchemeText /\ v = 0 THEN 96
                      ELSE IF scheme = DmtxSchemeText /\ v <= 26 THEN v + 64
                      ELSE v + 96

RECURSIVE CTXChars(_, _, _, _)
CTXChars(values, scheme, shift, upper) ==
    IF values = <<>> THEN <<>>
    ELSE IF scheme = DmtxSchemeX12
    THEN <<X12Char(Head(values))>> \o CTXChars(Tail(values), scheme, 0, FALSE)
    ELSE IF shift = 0 /\ Head(values) <= 2
    THEN CTXChars(Tail(values), scheme, Head(values) + 1, upper)
    ELSE IF shift = 2 /\ Head(values) = 30
    THEN CTXChars(Tail(values), scheme, 0, TRUE)
    ELSE <<(IF upper THEN 128 ELSE 0) + CTXChar(Head(values), scheme, shift)>>
         \o CTXChars(Tail(values), scheme, 0, FALSE)

CTXUnpack(c1, c2) ==
    <<((c1 * 256) + c2 - 1) \div 1600,
      (((c1 * 256) + c2 - 1) % 1600) \div 40,
      ((c1 * 256) + c2 - 1) % 40>>

\* where the run of codeword pairs starting at i stops: at the unlatch, at a
\* single last codeword, or past the end
RECURSIVE CTXEnd(_, _)
CTXEnd(cw, i) ==
    IF i >= Len(cw) THEN i
    ELSE IF cw[i] = DmtxValueCTXUnlatch THEN i
    ELSE CTXEnd(cw, i + 2)

RECURSIVE CTXRun(_, _, _)
CTXRun(cw, i, e) ==
    IF i >= e THEN <<>>
    ELSE CTXUnpack(cw[i], cw[i + 1]) \o CTXRun(cw, i + 2, e)

EdifactUnpack(c1, c2, c3) ==
    <<c1 \div 4, ((c1 % 4) * 16) + (c2 \div 16),
      ((c2 % 16) * 4) + (c3 \div 64), c3 % 64>>

EdifactChar(v) ==
    IF v >= 32 THEN v ELSE v + 64

\* index (1..4) of the first unlatch value among four, 5 when there is none
EdifactStop(u) ==
    IF \E k \in 1..4 : u[k] = DmtxValueEdifactUnlatch
    THEN CHOOSE k \in 1..4 : /\ u[k] = DmtxValueEdifactUnlatch
                             /\ \A j \in 1..(k - 1) : u[j] # DmtxValueEdifactUnlatch
    ELSE 5

RECURSIVE DecodeAscii(_, _)

DecodeCTX(cw, i, scheme) ==
    CTXChars(CTXRun(cw, i, CTXEnd(cw, i)), scheme, 0, FALSE)
    \o (IF CTXEnd(cw, i) <= Len(cw) /\ cw[CTXEnd(cw, i)] = DmtxValueCTXUnlatch
        THEN DecodeAscii(cw, CTXEnd(cw, i) + 1)
        ELSE DecodeAscii(cw, CTXEnd(cw, i)))

EdifactChars(u, stop) ==
    [k \in 1..(stop - 1) |-> EdifactChar(u[k])]

\* the codeword at i, read as 0 past the end of the data
CodewordAt(cw, i) ==
    IF i <= Len(cw) THEN cw[i] ELSE 0

\* groups of four values; the unlatch is implied when fewer than three
\* codewords remain after a full group
RECURSIVE DecodeEdifactGroup(_, _)
DecodeEdifactGroup(cw, i) ==
    LET u == EdifactUnpack(CodewordAt(cw, i), CodewordAt(cw, i + 1),
                           CodewordAt(cw, i + 2))
        stop == EdifactStop(u)
    IN  EdifactChars(u, stop)
        \o (IF stop < 5
            THEN DecodeAscii(cw, i + (IF stop = 4 THEN 3 ELSE stop))
            ELSE IF Len(cw) - (i + 3) + 1 < 3
            THEN DecodeAscii(cw, i + 3)
            ELSE DecodeEdifactGroup(cw, i + 3))

DecodeEdifact(cw, i) ==
    IF i > Len(cw) THEN <<>> ELSE DecodeEdifactGroup(cw, i)

Base256Chars(cw, start, last) ==
    [k \in 1..(last - start + 1) |->
        UnRandomize255State(cw[start + k - 1], start + k - 1)]

DecodeBase256(cw, i) ==
    IF i > Len(cw) THEN <<>>
    ELSE LET d0 == UnRandomize255State(cw[i], i)
             two == d0 >= 250 /\ i + 1 <= Len(cw)
             start == IF two THEN i + 2 ELSE i + 1
             n == IF d0 = 0 THEN Len(cw) - i
                  ELSE IF d0 <= 249 THEN d0
                  ELSE (250 * (d0 - 249))
                       + (IF two THEN UnRandomize255State(cw[i + 1], i + 1)
                          ELSE 0)
             last == IF start + n - 1 > Len(cw) THEN Len(cw) ELSE start + n - 1
         IN  Base256Chars(cw, start, last) \o DecodeAscii(cw, start + n)

DecodeAscii(cw, i) ==
    IF i > Len(cw) THEN <<>>
    ELSE IF cw[i] = DmtxValueAsciiPad THEN <<>>
    ELSE IF cw[i] <= 128 THEN <<cw[i] - 1>> \o DecodeAscii(cw, i + 1)
    ELSE IF cw[i] <= 229
    THEN <<48 + ((cw[i] - 130) \div 10), 48 + ((cw[i] - 130) % 10)>>
         \o DecodeAscii(cw, i + 1)
    ELSE IF cw[i] = DmtxValueAsciiUpperShift
    THEN IF i + 1 <= Len(cw)
         THEN <<cw[i + 1] + 127>> \o DecodeAscii(cw, i + 2)
         ELSE <<>>
    ELSE IF cw[i] = DmtxValueC40Latch THEN DecodeCTX(cw, i + 1, DmtxSchemeC40)
    ELSE IF cw[i] = DmtxValueTextLatch THEN DecodeCTX(cw, i + 1, DmtxSchemeText)
    ELSE IF cw[i] = DmtxValueX12Latch THEN DecodeCTX(cw, i + 1, DmtxSchemeX12)
    ELSE IF cw[i] = DmtxValueEdifactLatch THEN DecodeEdifact(cw, i + 1)
    ELSE IF cw[i] = DmtxValueBase256Latch THEN DecodeBase256(cw, i + 1)
    ELSE DecodeAscii(cw, i + 1)

Decode(cw) ==
    DecodeAscii(cw, 1)

(***************************************************************************)
(* Properties.                                                             *)
(***************************************************************************)
\* the scheme the stream had when EncodeSingleScheme2 was entered
EntryScheme ==
    schemeTrail[1]

TerminalStatuses ==
    {DmtxStatusComplete, DmtxStatusInvalid, DmtxStatusFatal}

X12Set ==
    {13, 42, 62, 32} \cup (48..57) \cup (65..90)

\* the data words the size hint allows at most
HintCapacity ==
    IF requestedSizeIdx = DmtxSymbolSquareAuto
    THEN dmtxGetSymbolAttribute(DmtxSymbolSquareCount - 1)
    ELSE dmtxGetSymbolAttribute(requestedSizeIdx)

\* C1: whenever the status is Complete, the output holds exactly the data
\* words of the symbol size recorded at completion.
CompleteFillsSymbol ==
    status = DmtxStatusComplete =>
        /\ sizeIdx \in 0..(Len(SymbolDataWords) - 1)
        /\ Len(output) = dmtxGetSymbolAttribute(sizeIdx)

CompleteFillsSymbolWitness ==
    /\ pc = "done"
    /\ status = DmtxStatusComplete
    /\ targetScheme = DmtxSchemeEdifact
    /\ Len(input) = 2
    /\ Len(output) = 5

\* C2: whenever an encode ends Complete, reading the output codewords back
\* by the scheme rules gives the input exactly.
RoundTrip ==
    status = DmtxStatusComplete => Decode(output) = input

\* C3: the call of EncodeSingleScheme2 returns, with the status Complete,
\* Invalid or Fatal: the dispatcher loop and the loops inside
\* EncodeNextChunkCTX all come to an end.
Terminates ==
    <>(pc = "done" /\ status \in TerminalStatuses)

TerminatesWitness ==
    /\ pc = "done"
    /\ targetScheme \in CTXSchemes
    /\ inputNext = 3
    /\ Len(output) > 3
    /\ status \in TerminalStatuses

\* C4: once the status is no longer Encoding, no step changes the output,
\* the input cursor, the current scheme or the status, and no function
\* writes a stream field after the status left Encoding.
TerminalIsAbsorbing ==
    [][/\ ~late'
       /\ status # DmtxStatusEncoding =>
             /\ output' = output
             /\ inputNext' = inputNext
             /\ currentScheme' = currentScheme
             /\ status' = status]_vars

TerminalIsAbsorbingWitness ==
    /\ pc = "done"
    /\ status = DmtxStatusComplete
    /\ targetScheme = DmtxSchemeBase256
    /\ passFail = "Pass"
    /\ Len(input) = 2

\* C5 as stated: the chain's word count is at least its value count at every
\* point, and the two are equal in every chain but a Base 256 chain.
ChainWordsCoverValues ==
    /\ outputChainWordCount >= outputChainValueCount
    /\ currentScheme # DmtxSchemeBase256 =>
           outputChainWordCount = outputChainValueCount

\* C5 amended: the word count is at least the value count in ASCII and
\* Base 256 chains; a C40/Text/X12 chain holds two words for every three
\* values; an EDIFACT chain holds the three words four values pack into
\* (rounded up).
ChainCountsByScheme ==
    /\ currentScheme \in {DmtxSchemeAscii, DmtxSchemeBase256} =>
           outputChainWordCount >= outputChainValueCount
    /\ currentScheme \in CTXSchemes =>
           /\ 3 * outputChainWordCount >= 2 * outputChainValueCount
           /\ status = DmtxStatusEncoding =>
                  3 * outputChainWordCount = 2 * outputChainValueCount
    /\ currentScheme = DmtxSchemeEdifact =>
           /\ 4 * outputChainWordCount >= 3 * outputChainValueCount
           /\ 4 * outputChainWordCount < (3 * outputChainValueCount) + 4

ChainCountsBySchemeWitness ==
    /\ currentScheme \in CTXSchemes
    /\ outputChainValueCount = 3
    /\ outputChainWordCount = 2

\* C6: with target X12, an input holding a byte outside the X12 set never
\* reaches Complete and ends Invalid.
X12RejectsForeignBytes ==
    (/\ targetScheme = DmtxSchemeX12
     /\ EntryScheme = DmtxSchemeAscii
     /\ \E i \in 1..Len(input) : input[i] \notin X12Set)
    => /\ status # DmtxStatusComplete
       /\ pc = "done" => status = DmtxStatusInvalid

\* C7 as stated: with target Edifact, an input holding a byte outside
\* [31, 94] ends Invalid.
EdifactRejectsForeignBytes ==
    (/\ targetScheme = DmtxSchemeEdifact
     /\ EntryScheme = DmtxSchemeAscii
     /\ \E i \in 1..Len(input) : input[i] \notin 31..94
     /\ pc = "done")
    => status = DmtxStatusInvalid

\* C7 amended: when EncodeNextChunkEdifact takes a byte outside [31, 94], the
\* status becomes Invalid (unsupported character) and the output and the
\* chain counters stay as they were before the byte.
EdifactChunkRejectsForeignByte ==
    [][(/\ AtChunk
        /\ currentScheme = DmtxSchemeEdifact
        /\ StreamInputHasNext(Stream)
        /\ StreamInputPeekValue(Stream) \notin 31..94)
       => /\ status' = DmtxStatusInvalid
          /\ reason' = DmtxChannelUnsupportedChar
          /\ output' = output
          /\ outputChainWordCount' = outputChainWordCount
          /\ outputChainValueCount' = outputChainValueCount]_vars

EdifactChunkRejectsForeignByteWitness ==
    /\ targetScheme = DmtxSchemeEdifact
    /\ status = DmtxStatusInvalid
    /\ reason = DmtxChannelUnsupportedChar
    /\ inputNext = 2
    /\ outputChainValueCount = 1

\* a step at which the code looks up the symbol size for the current output
SizeCheckedHere ==
    \/ /\ pc = "complete"
       /\ currentScheme \in CTXSchemes \cup {DmtxSchemeEdifact}
    \/ /\ pc = "complete"
       /\ currentScheme \in {DmtxSchemeAscii, DmtxSchemeBase256}
       /\ ~StreamInputHasNext(Stream)
    \/ /\ pc = "ctx_tail"
       /\ ~StreamInputHasNext(Stream)
       /\ Len(valueList) > 0

\* C8: a completion step that finds no symbol size for the current output
\* length under the hint makes the status Invalid, and no step makes the
\* status Complete with more codewords than the hint allows.
UndefinedSizeIsInvalid ==
    [][/\ (/\ SizeCheckedHere
           /\ FindSymbolSize(Len(output), requestedSizeIdx) = DmtxUndefined)
          => status' = DmtxStatusInvalid
       /\ status' = DmtxStatusComplete => Len(output') <= HintCapacity]_vars

UndefinedSizeIsInvalidWitness ==
    /\ pc = "done"
    /\ status = DmtxStatusInvalid
    /\ requestedSizeIdx = 0
    /\ targetScheme = DmtxSchemeBase256
    /\ Len(output) > dmtxGetSymbolAttribute(0)

\* C9: entered with a current scheme other than Ascii, EncodeSingleScheme2
\* marks the stream Fatal and returns failure at once; the output, the input
\* cursor and the current scheme are as they were.
NonAsciiEntryIsFatal ==
    (EntryScheme # DmtxSchemeAscii /\ pc # "enter") =>
        /\ pc = "done"
        /\ status = DmtxStatusFatal
        /\ passFail = "Fail"
        /\ output = <<>>
        /\ inputNext = 0
        /\ currentScheme = EntryScheme
        /\ schemeTrail = <<EntryScheme>>

NonAsciiEntryIsFatalWitness ==
    /\ pc = "done"
    /\ EntryScheme = DmtxSchemeC40
    /\ status = DmtxStatusFatal
    /\ Len(input) > 0

\* C10: every latch codeword was appended while the current scheme was
\* Ascii, and the current scheme never went from a non-ASCII scheme straight
\* to another non-ASCII scheme.
LatchesGoThroughAscii ==
    /\ \A i \in latchAt : i <= Len(output) /\ output[i] \in Latches
                          /\ outScheme[i] = DmtxSchemeAscii
    /\ \A k \in 1..(Len(schemeTrail) - 1) :
           \/ schemeTrail[k] = DmtxSchemeAscii
           \/ schemeTrail[k + 1] = DmtxSchemeAscii

LatchesGoThroughAsciiWitness ==
    /\ Cardinality(latchAt) = 2
    /\ Len(schemeTrail) = 4
    /\ currentScheme = targetScheme

\* C11: leaving a C40/Text/X12 chain, the unlatch 254 is the only codeword
\* appended, and only at a value count divisible by 3, where the chain holds
\* an even number of codewords; an explicit exit at any other value count
\* makes the status Invalid and appends nothing.
UnlatchOnlyOnTripletBoundary ==
    [][/\ output' # output =>
             /\ outputChainValueCount % 3 = 0
             /\ outputChainWordCount % 2 = 0
             /\ output' = Append(output, DmtxValueCTXUnlatch)
       /\ (pc' \in {"unlatched", "exited_explicit"}
             /\ outputChainValueCount % 3 # 0) =>
             /\ status' = DmtxStatusInvalid
             /\ output' = output
       /\ (pc' \in {"unlatched", "exited_explicit"}
             /\ outputChainValueCount % 3 = 0) =>
             /\ status' = DmtxStatusEncoding
             /\ output' = Append(output, DmtxValueCTXUnlatch)]_vars

UnlatchOnlyOnTripletBoundaryWitness ==
    /\ pc = "exited_explicit"
    /\ status = DmtxStatusInvalid
    /\ currentScheme \in CTXSchemes
    /\ outputChainValueCount = 4
    /\ Len(output) = 3

\* C12: in a C40/Text/X12 chunk, a buffer of three or more values is packed
\* into exactly one codeword pair (P \div 256, P % 256) with
\* P = 1600*v0 + 40*v1 + v2 + 1 and the three values leave the buffer; "AIM"
\* with target C40 and size Auto gives an output that starts 230, 91, 11, 254.
TripletPackedAndDrained ==
    [][/\ (pc = "ctx_inner" /\ Len(valueList) >= 3) =>
             /\ output' = output
                           \o <<Byte(PairValue(SubSeq(valueList, 1, 3)) \div 256),
                                Byte(PairValue(SubSeq(valueList, 1, 3)) % 256)>>
             /\ valueList' = SubSeq(valueList, 4, Len(valueList))
       /\ (/\ input = <<65, 73, 77>>
           /\ targetScheme = DmtxSchemeC40
           /\ requestedSizeIdx = DmtxSymbolSquareAuto
           /\ EntryScheme = DmtxSchemeAscii
           /\ Len(output') >= 4) =>
             SubSeq(output', 1, 4) = <<230, 91, 11, 254>>]_vars

\* randomize_255 as the header rule states it
Randomize255Formula(v, pos) ==
    (v + ((149 * pos) % 255) + 1) % 256

\* index (1-based) of the first byte of the current chain
ChainStart ==
    Len(output) - outputChainWordCount + 1

\* C13: while a Base 256 chain of L values is being encoded, it starts with
\* one header byte of nominal value L when L <= 249 and with two header bytes
\* of nominal values L \div 250 + 249 and L % 250 when L >= 250, each stored
\* as randomize_255(nominal, its output position); the word count exceeds
\* the value count by 1 or 2.
Base256HeaderHoldsLength ==
    (currentScheme = DmtxSchemeBase256 /\ status = DmtxStatusEncoding
     /\ pc # "enter") =>
        IF outputChainValueCount <= 249
        THEN /\ outputChainWordCount - outputChainValueCount = 1
             /\ output[ChainStart] =
                    Randomize255Formula(outputChainValueCount, ChainStart)
        ELSE /\ outputChainWordCount - outputChainValueCount = 2
             /\ output[ChainStart] =
                    Randomize255Formula((outputChainValueCount \div 250) + 249,
                                        ChainStart)
             /\ output[ChainStart + 1] =
                    Randomize255Formula(outputChainValueCount % 250,
                                        ChainStart + 1)

Base256HeaderHoldsLengthWitness ==
    /\ currentScheme = DmtxSchemeBase256
    /\ status = DmtxStatusEncoding
    /\ outputChainValueCount = 251
    /\ outputChainWordCount = 253

\* the output length the current Base 256 chain has with one header byte
SingleHeaderLength ==
    Len(output) - (outputChainWordCount - outputChainValueCount - 1)

\* CompleteIfDoneBase256 is about to run on exhausted input, and the chain
\* with a single header byte ends at the last data word of its symbol
EndsAtSymbolEnd ==
    /\ pc = "complete"
    /\ currentScheme = DmtxSchemeBase256
    /\ ~StreamInputHasNext(Stream)
    /\ FindSymbolSize(SingleHeaderLength, requestedSizeIdx) # DmtxUndefined
    /\ GetRemainingSymbolCapacity(
           SingleHeaderLength,
           FindSymbolSize(SingleHeaderLength, requestedSizeIdx)) = 0

\* the step completes the encode with the single header byte 0
CompletedExactFit ==
    /\ status' = DmtxStatusComplete
    /\ Len(output') = SingleHeaderLength
    /\ output'[ChainStart] = Randomize255Formula(0, ChainStart)

\* the step completes the encode with the chain length in the header byte
CompletedWithLength ==
    /\ status' = DmtxStatusComplete
    /\ output' = output
    /\ output'[ChainStart] =
           Randomize255Formula(outputChainValueCount, ChainStart)

\* C14 as stated: whenever the chain with one header byte ends at the last
\* data word of the symbol, whatever its length, the encode completes with
\* the single header byte 0.
ExactFitForEveryLength ==
    [][EndsAtSymbolEnd => CompletedExactFit]_vars

\* C14: when the chain with one header byte ends at the last data word of
\* the symbol, a chain carrying two header bytes (250 values or more)
\* completes with the single header byte 0, and a chain carrying one header
\* byte (at most 249 values) completes unchanged, its header byte holding
\* its length.
ExactFitCollapsesTwoHeaderBytes ==
    [][EndsAtSymbolEnd =>
          IF outputChainWordCount - outputChainValueCount = 2
          THEN CompletedExactFit
          ELSE CompletedWithLength]_vars

ExactFitCollapsesTwoHeaderBytesWitness ==
    /\ status = DmtxStatusComplete
    /\ currentScheme = DmtxSchemeBase256
    /\ Len(input) = 278
    /\ Len(output) = 280
    /\ outputChainWordCount - outputChainValueCount = 1
    /\ output[2] = Randomize255Formula(0, 2)

\* EncodeNextChunkAscii is about to run on input that is not exhausted
AsciiChunkDue ==
    /\ AtChunk
    /\ currentScheme = DmtxSchemeAscii
    /\ inputNext < Len(input)

\* the next two input bytes are digits
DigitPairNext ==
    /\ inputNext + 2 <= Len(input)
    /\ input[inputNext + 1] \in 48..57
    /\ input[inputNext + 2] \in 48..57

\* C15: a call of EncodeNextChunkAscii on input that is not exhausted
\* consumes two bytes exactly when the next two bytes are digits d1 d2, and
\* then appends 10*d1 + d2 + 130; otherwise it consumes one byte v and
\* appends v + 1 when v <= 127, and 235 followed by v - 127 when v >= 128.
AsciiChunkConsumesOneOrTwo ==
    [][AsciiChunkDue =>
          IF DigitPairNext
          THEN /\ inputNext' = inputNext + 2
               /\ output' = Append(output,
                                    10 * (input[inputNext + 1] - 48)
                                    + (input[inputNext + 2] - 48) + 130)
          ELSE /\ inputNext' = inputNext + 1
               /\ output' = output \o
                      (IF input[inputNext + 1] <= 127
                       THEN <<input[inputNext + 1] + 1>>
                       ELSE <<235, input[inputNext + 1] - 127>>)]_vars

AsciiChunkConsumesOneOrTwoWitness ==
    /\ targetScheme = DmtxSchemeAscii
    /\ input = <<49, 49, 200>>
    /\ inputNext = 3
    /\ output = <<141, 235, 73>>
    /\ status = DmtxStatusEncoding

\* the encode of "123456" with target Ascii and Auto size has returned
DigitsEncodeReturned ==
    /\ input = <<49, 50, 51, 52, 53, 54>>
    /\ targetScheme = DmtxSchemeAscii
    /\ requestedSizeIdx = DmtxSymbolSquareAuto
    /\ EntryScheme = DmtxSchemeAscii
    /\ pc = "done"

\* C16 as stated: "123456" with target Ascii and Auto size completes with
\* an output that starts 142, 154, 186, 129.
DigitsThenPad ==
    DigitsEncodeReturned =>
        /\ status = DmtxStatusComplete
        /\ Len(output) >= 4
        /\ SubSeq(output, 1, 4) = <<142, 154, 186, 129>>

\* C16: "123456" with target Ascii and Auto size completes with the three
\* digit-pair codewords 142, 164, 186 and nothing else: they fill the
\* 3-word symbol, so no pad follows.
DigitsFillSmallestSymbol ==
    DigitsEncodeReturned =>
        /\ status = DmtxStatusComplete
        /\ output = <<142, 164, 186>>
        /\ sizeIdx = 0

DigitsFillSmallestSymbolWitness ==
    /\ DigitsEncodeReturned
    /\ status = DmtxStatusComplete
    /\ inputNext = 6

\* the step ends the encode in ASCII
FinishesInAscii ==
    /\ status = DmtxStatusEncoding
    /\ status' = DmtxStatusComplete
    /\ currentScheme' = DmtxSchemeAscii

\* the output length when PadRemainingInAscii is called in that step: the
\* output so far, after the EDIFACT unlatch or the ASCII tail an EDIFACT
\* encode writes first
PadStart ==
    IF currentScheme # DmtxSchemeEdifact THEN Len(output)
    ELSE IF ~StreamInputHasNext(Stream)
    THEN Len(EncodeChangeScheme(Stream, DmtxSchemeAscii,
                                DmtxUnlatchExplicit).output)
    ELSE Len(output)
         + Len(EncodeTmpRemainingInAscii(Stream, EdifactScratchCapacity).output)

\* C17: an encode that finishes in ASCII with r > 0 data words of the
\* resolved symbol free appends exactly r pads, the first the literal 129
\* and each later one randomize_253(129, p) at its output position p; the
\* empty input with target Ascii and Auto size gives the 3-word symbol
\* holding pads only.
PadsFillTheSymbol ==
    [][/\ FinishesInAscii =>
             /\ Len(output') = dmtxGetSymbolAttribute(sizeIdx')
             /\ PadStart <= Len(output')
             /\ \A p \in (PadStart + 1)..Len(output') :
                    output'[p] = IF p = PadStart + 1
                                 THEN 129
                                 ELSE Randomize253State2(129, p)
       /\ (/\ input = <<>>
           /\ targetScheme = DmtxSchemeAscii
           /\ requestedSizeIdx = DmtxSymbolSquareAuto
           /\ EntryScheme = DmtxSchemeAscii
           /\ pc = "complete") =>
             /\ status' = DmtxStatusComplete
             /\ sizeIdx' = 0
             /\ output' = <<129, 175, 70>>]_vars

PadsFillTheSymbolWitness ==
    /\ status = DmtxStatusComplete
    /\ targetScheme = DmtxSchemeAscii
    /\ input = <<200>>
    /\ requestedSizeIdx = 1
    /\ output = <<235, 73, 129, 220, 115>>

\* C18 as stated: randomize_253(v, pos) is
\* ((v + ((149*pos) mod 253) + 1) - 1) mod 254 and lies in 0..253.
Randomize253IsZeroBased ==
    pc = "randomized" =>
        /\ output[1] = ((input[1] + ((149 * inputNext) % 253) + 1) - 1) % 254
        /\ output[1] \in 0..253

\* C18: for every byte v and position pos, randomize_253(v, pos) is
\* (((v + ((149*pos) mod 253) + 1) - 1) mod 254) + 1 and lies in 1..254.
Randomize253IsOneBased ==
    pc = "randomized" =>
        /\ output[1] =
               (((input[1] + ((149 * inputNext) % 253) + 1) - 1) % 254) + 1
        /\ output[1] \in 1..254

Randomize253IsOneBasedWitness ==
    /\ pc = "randomized"
    /\ input = <<255>>
    /\ inputNext = 4096
    /\ input[1] + ((149 * inputNext) % 253) + 1 = 324
    /\ output = <<70>>

\* the values the first k input bytes put into the value buffer
RECURSIVE AllCTXValues(_, _)
AllCTXValues(k, scheme) ==
    IF k = 0 THEN <<>>
    ELSE PushCTXValues(AllCTXValues(k - 1, scheme), input[k], scheme)

\* no value of the input is left in the buffer when the input ends
NothingBuffered ==
    Len(AllCTXValues(Len(input), targetScheme)) % 3 = 0

\* CompleteIfDoneCTX is about to run with the input exhausted, the buffer
\* empty and data words of the symbol still free
CTXEndsWithRoom ==
    /\ pc = "complete"
    /\ currentScheme \in CTXSchemes
    /\ ~StreamInputHasNext(Stream)
    /\ NothingBuffered
    /\ FindSymbolSize(Len(output), requestedSizeIdx) # DmtxUndefined
    /\ GetRemainingSymbolCapacity(
           Len(output), FindSymbolSize(Len(output), requestedSizeIdx)) > 0

\* the encode is back in ASCII after that unlatch and has not finished
CTXUnlatchedAtEnd ==
    /\ pc = "next"
    /\ targetScheme \in CTXSchemes
    /\ currentScheme = DmtxSchemeAscii
    /\ status = DmtxStatusEncoding
    /\ ~StreamInputHasNext(Stream)
    /\ NothingBuffered
    /\ Len(output) > 0
    /\ output[Len(output)] = DmtxValueCTXUnlatch

\* C19 as stated: when a C40/Text/X12 encode has exhausted its input with
\* the buffer empty and symbol words free, it appends one unlatch 254 and
\* then stays in ASCII: it appends only ASCII pads, ends Complete in ASCII
\* and emits no latch again.
CTXFinishesInAsciiAfterUnlatch ==
    [][/\ CTXEndsWithRoom =>
             /\ output' = Append(output, DmtxValueCTXUnlatch)
             /\ currentScheme' = DmtxSchemeAscii
       /\ CTXUnlatchedAtEnd =>
             /\ currentScheme' = DmtxSchemeAscii
             /\ latchAt' = latchAt
             /\ status' = DmtxStatusComplete
             /\ \A p \in (Len(output) + 1)..Len(output') :
                    output'[p] = IF p = Len(output) + 1
                                 THEN DmtxValueAsciiPad
                                 ELSE Randomize253State2(DmtxValueAsciiPad, p)]_vars

\* the whole input as ASCII codewords
InputInAscii ==
    EncodeTmpRemainingInAscii([Stream EXCEPT !.inputNext = 0],
                              OutputCapacity).output

\* the input ends with one or two values in the buffer (it holds fewer than
\* three values in all, so the chain is still just its latch), and the end
\* of symbol condition that pads two values with Shift1 does not apply
PartialValuesAtEnd ==
    /\ targetScheme \in CTXSchemes
    /\ EntryScheme = DmtxSchemeAscii
    /\ Len(AllCTXValues(Len(input), targetScheme)) \in {1, 2}
    /\ ~(/\ Len(AllCTXValues(Len(input), targetScheme)) = 2
          /\ GetRemainingSymbolCapacity(
                 1, FindSymbolSize(1, requestedSizeIdx)) = 2)

\* C20 as stated: a C40/Text/X12 encode whose input ends with one or two
\* buffered values, outside the Shift1 padding case, takes those input
\* bytes back, appends the unlatch 254 and encodes them in ASCII before the
\* pads: a Complete encode holds latch, 254 and the ASCII codewords of the
\* bytes; this covers a one-byte input with target C40.
PartialValuesReencodedInAscii ==
    (PartialValuesAtEnd /\ pc = "done" /\ status = DmtxStatusComplete) =>
        /\ inputNext = Len(input)
        /\ currentScheme = DmtxSchemeAscii
        /\ Len(output) >= 2 + Len(InputInAscii)
        /\ SubSeq(output, 1, 2 + Len(InputInAscii)) =
               <<LatchOf(targetScheme), DmtxValueCTXUnlatch>> \o InputInAscii

\* the end of a C40/Text/X12 chunk with the input exhausted
CTXTailAtEnd ==
    /\ pc = "ctx_tail"
    /\ ~StreamInputHasNext(Stream)

\* two values are buffered and two data words of the symbol are free
TwoValuesTwoWords ==
    /\ Len(valueList) = 2
    /\ FindSymbolSize(Len(output), requestedSizeIdx) # DmtxUndefined
    /\ GetRemainingSymbolCapacity(
           Len(output), FindSymbolSize(Len(output), requestedSizeIdx)) = 2

\* C21: at the end of input, two buffered values with two data words free
\* are completed by Shift1 (0) into one triplet, emitted as two codewords,
\* and the encode is Complete with the symbol full and no unlatch; with any
\* other leftover count or room nothing is emitted at the end of the chunk.
Shift1PadsLastTriplet ==
    [][CTXTailAtEnd =>
          IF TwoValuesTwoWords
          THEN /\ output' = output \o
                      <<(1600 * valueList[1] + 40 * valueList[2] + 0 + 1) \div 256,
                        (1600 * valueList[1] + 40 * valueList[2] + 0 + 1) % 256>>
               /\ status' = DmtxStatusComplete
               /\ Len(output') = dmtxGetSymbolAttribute(sizeIdx')
               /\ currentScheme' = currentScheme
          ELSE output' = output]_vars

Shift1PadsLastTripletWitness ==
    /\ status = DmtxStatusComplete
    /\ targetScheme = DmtxSchemeC40
    /\ input = <<65, 65>>
    /\ output = <<230, 89, 177>>

\* the output the chain has once the EDIFACT unlatch value is packed into it
WithEdifactUnlatch ==
    EncodeChangeScheme(Stream, DmtxSchemeAscii, DmtxUnlatchExplicit).output

\* the step leaves an EDIFACT chain for ASCII and the unlatch value is not
\* in the output
LeftEdifactWithoutUnlatch ==
    /\ currentScheme = DmtxSchemeEdifact
    /\ currentScheme' = DmtxSchemeAscii
    /\ \/ Len(output') < Len(WithEdifactUnlatch)
       \/ SubSeq(output', 1, Len(WithEdifactUnlatch)) # WithEdifactUnlatch

\* the remaining input as ASCII codewords, in the 3-word scratch buffer
RestInAscii ==
    EncodeTmpRemainingInAscii(Stream, EdifactScratchCapacity)

\* C22: an EDIFACT chain is left for ASCII without the unlatch value only
\* on a clean boundary, with at most 2 data words of the symbol remaining,
\* and with the whole remaining input fitting, as ASCII codewords, into
\* that remaining capacity.
ImplicitUnlatchOnlyAtSymbolEnd ==
    [][LeftEdifactWithoutUnlatch =>
          /\ outputChainValueCount % 4 = 0
          /\ FindSymbolSize(Len(output), requestedSizeIdx) # DmtxUndefined
          /\ GetRemainingSymbolCapacity(
                 Len(output),
                 FindSymbolSize(Len(output), requestedSizeIdx)) <= 2
          /\ TmpPassFail(RestInAscii) = "Pass"
          /\ Len(RestInAscii.output) <=
                 GetRemainingSymbolCapacity(
                     Len(output),
                     FindSymbolSize(Len(output), requestedSizeIdx))]_vars

\* two to the power n
RECURSIVE Pow2(_)
Pow2(n) ==
    IF n = 0 THEN 1 ELSE 2 * Pow2(n - 1)

\* up to four 6-bit values as one big-endian number
RECURSIVE SixBitNumber(_)
SixBitNumber(vals) ==
    IF vals = <<>> THEN 0
    ELSE 64 * SixBitNumber(SubSeq(vals, 1, Len(vals) - 1)) + vals[Len(vals)]

\* up to four 6-bit values as bytes: the bits left-aligned, the unused low
\* bits of the last byte zero
GroupBytes(vals) ==
    LET nb == (6 * Len(vals) + 7) \div 8
        n == SixBitNumber(vals) * Pow2(8 * nb - 6 * Len(vals))
    IN  [j \in 1..nb |-> (n \div Pow2(8 * (nb - j))) % 256]

\* any number of 6-bit values as bytes, four values to three bytes
RECURSIVE PackSix(_)
PackSix(vals) ==
    IF Len(vals) <= 4 THEN GroupBytes(vals)
    ELSE GroupBytes(SubSeq(vals, 1, 4)) \o PackSix(SubSeq(vals, 5, Len(vals)))

\* r pad codewords following an output of n codewords
PadWords(n, r) ==
    [i \in 1..r |-> IF i = 1 THEN 129 ELSE Randomize253State2(129, n + i)]

\* CompleteIfDoneEdifact is about to run with the input exhausted
EdifactAtEnd ==
    /\ pc = "complete"
    /\ currentScheme = DmtxSchemeEdifact
    /\ ~StreamInputHasNext(Stream)

\* the chain is on a clean boundary and the symbol is full
EdifactCleanAndFull ==
    /\ outputChainValueCount % 4 = 0
    /\ FindSymbolSize(Len(output), requestedSizeIdx) # DmtxUndefined
    /\ GetRemainingSymbolCapacity(
           Len(output), FindSymbolSize(Len(output), requestedSizeIdx)) = 0

\* the 6-bit values of the chain: those of the last input bytes
ChainSixBitValues ==
    [i \in 1..outputChainValueCount |->
        input[Len(input) - outputChainValueCount + i] % 64]

\* the output with the unlatch value 31 packed as one more value
UnlatchPacked ==
    SubSeq(output, 1, ChainStart - 1) \o PackSix(Append(ChainSixBitValues, 31))

\* the step completes the encode with the unlatch packed and pads up to the
\* end of the symbol resolved for the new length
CompletedWithUnlatchAndPads ==
    /\ FindSymbolSize(Len(UnlatchPacked), requestedSizeIdx) # DmtxUndefined
    /\ status' = DmtxStatusComplete
    /\ currentScheme' = DmtxSchemeAscii
    /\ sizeIdx' = FindSymbolSize(Len(UnlatchPacked), requestedSizeIdx)
    /\ output' = UnlatchPacked \o
                  PadWords(Len(UnlatchPacked),
                           dmtxGetSymbolAttribute(sizeIdx') - Len(UnlatchPacked))

\* the step completes the encode and emits nothing
CompletedAsIs ==
    /\ status' = DmtxStatusComplete
    /\ output' = output
    /\ currentScheme' = DmtxSchemeEdifact

SixBitValues(n) ==
    [i \in 1..n |-> BitAnd(input[i], 63)]

\* C24: in an EDIFACT chain started on a clean boundary, each call of
\* EncodeValueEdifact adds one value; the chain is always the 6-bit values
\* b & 0x3F of the bytes encoded so far, concatenated big-endian and
\* left-aligned with the unused low bits zero (three codewords for four
\* values); the word count grows by 1 in phases 0, 1, 2 and by 0 in phase 3.
EdifactPacksSixBitValues ==
    [][pc = "in_chain" =>
          /\ status' = DmtxStatusEncoding
          /\ outputChainValueCount' = outputChainValueCount + 1
          /\ outputChainWordCount' - outputChainWordCount =
                 (IF outputChainValueCount % 4 = 3 THEN 0 ELSE 1)
          /\ Len(output') = 1 + outputChainWordCount'
          /\ output' = <<DmtxValueEdifactLatch>>
                        \o PackSix(SixBitValues(outputChainValueCount'))
          /\ (outputChainValueCount' % 4 = 0) =>
                 outputChainWordCount' = 3 * (outputChainValueCount' \div 4)]_vars

EdifactPacksSixBitValuesWitness ==
    /\ pc = "in_chain"
    /\ outputChainValueCount = 4
    /\ outputChainWordCount = 3
    /\ SubSeq(input, 1, 4) = <<94, 31, 32, 64>>
    /\ output = <<240, 121, 248, 0>>

\* the number of header bytes a Complete Base 256 output has: one after the
\* exact fit (the encode ends in Base 256) and up to 249 values, else two
FinalHeaderBytes ==
    IF currentScheme = DmtxSchemeBase256 \/ Len(input) <= 249 THEN 1 ELSE 2

\* C25: in a Complete Base 256 output every payload byte equals
\* randomize_255(v, p) for its input byte v and its own 1-based output
\* position p, also when the header has grown to two bytes or shrunk to one
\* and the payload has moved by one position.
PayloadRandomizedInPlace ==
    (/\ status = DmtxStatusComplete
     /\ targetScheme = DmtxSchemeBase256
     /\ EntryScheme = DmtxSchemeAscii) =>
        \A i \in 1..Len(input) :
            output[1 + FinalHeaderBytes + i] =
                Randomize255Formula(input[i], 1 + FinalHeaderBytes + i)

InSchemeChunk ==
    AtChunk \/ pc \in {"ctx_outer", "ctx_inner", "ctx_tail"}

ChunkLeavesEndOfSymbolAlone ==
    [][InSchemeChunk
         => /\ status' # DmtxStatusComplete
            /\ sizeIdx' = sizeIdx]_vars

\* ---------------------------------------------------------------------
\* C28.  During any C40/Text/X12 encode the buffer of pending values never
\* holds more than the 4 values its storage has room for, also when an
\* extended-ASCII byte or a two-value shifted byte is pushed while 1 or 2
\* values are already buffered.
ValueListCapacity == 4

ValueListFitsStorage ==
    Len(valueList) <= ValueListCapacity

====
